---- MODULE Spec2Model ----
(***************************************************************************)
(* Model of the card identity / import subsystem of Werkstoffkunde:        *)
(*   - server/idgen.ts   (getTopicAbbreviation, getTypeInitial,            *)
(*                        generateCardId)                                  *)
(*   - src/utils/idGenerator.ts (the client copy of the same functions)    *)
(*   - server/index.ts   (the HTTP handlers) and server/db.ts (the store)  *)
(*   - ImportModal.handleImport / cardStore.importCards (client import)    *)
(*   - FlashcardView     (the drill session over a deck of cards)          *)
(*                                                                         *)
(* JavaScript strings are sequences of one-character strings.  The         *)
(* characters outside ASCII are written as two-character tokens:           *)
(*   "a~" "o~" "u~" "A~" "O~" "U~" for the umlauts, "sz" for the sharp s.  *)
(* JavaScript numbers that hold non-negative integers are canonical        *)
(* decimal numerals (digit sequences without leading zeros), so that the   *)
(* 53-bit precision of a double can be modelled exactly at its edge.       *)
(***************************************************************************)
EXTENDS Integers, Sequences, FiniteSets, TLC

VARIABLES rows, last, issued, pending, served, gen, view, session, fn

vars == <<rows, last, issued, pending, served, gen, view, session, fn>>

(***************************************************************************)
(* Characters and strings                                                  *)
(***************************************************************************)
Digit == {"0", "1", "2", "3", "4", "5", "6", "7", "8", "9"}

LowerLetters == <<"a", "b", "c", "d", "e", "f", "g", "h", "i", "j", "k", "l", "m",
                  "n", "o", "p", "q", "r", "s", "t", "u", "v", "w", "x", "y", "z">>

UpperLetters == <<"A", "B", "C", "D", "E", "F", "G", "H", "I", "J", "K", "L", "M",
                  "N", "O", "P", "Q", "R", "S", "T", "U", "V", "W", "X", "Y", "Z">>

Range(s) == {s[i] : i \in DOMAIN s}

LowerSet == Range(LowerLetters)

UpperSet == Range(UpperLetters)

UpperOfLower ==
  [c \in LowerSet |-> UpperLetters[CHOOSE i \in DOMAIN LowerLetters : LowerLetters[i] = c]]

IsAsciiLetter(c) == c \in LowerSet \/ c \in UpperSet

\* String.prototype.toUpperCase on one character (the sharp s becomes "SS").
UpperOfChar(c) ==
  IF c \in LowerSet THEN <<UpperOfLower[c]>>
  ELSE IF c = "a~" THEN <<"A~">>
  ELSE IF c = "o~" THEN <<"O~">>
  ELSE IF c = "u~" THEN <<"U~">>
  ELSE IF c = "sz" THEN <<"S", "S">>
  ELSE <<c>>

RECURSIVE toUpperCase(_)
toUpperCase(s) ==
  IF s = <<>> THEN <<>> ELSE UpperOfChar(Head(s)) \o toUpperCase(Tail(s))

\* String.prototype.startsWith
startsWith(s, p) == Len(p) <= Len(s) /\ SubSeq(s, 1, Len(p)) = p

\* String.prototype.slice(n) for 0 <= n (the rest of the string from offset n)
sliceFrom(s, n) == IF n >= Len(s) THEN <<>> ELSE SubSeq(s, n + 1, Len(s))

\* String.prototype.slice(0, n)
sliceTo(s, n) == IF n >= Len(s) THEN s ELSE SubSeq(s, 1, n)

RECURSIVE padEnd(_, _, _)
padEnd(s, n, c) == IF Len(s) >= n THEN s ELSE padEnd(Append(s, c), n, c)

RECURSIVE padStart(_, _, _)
padStart(s, n, c) == IF Len(s) >= n THEN s ELSE padStart(<<c>> \o s, n, c)

(***************************************************************************)
(* Numbers: canonical decimal numerals                                     *)
(***************************************************************************)
Zero == <<"0">>

\* 2^53 = 9007199254740992: from here on a double no longer holds every
\* integer, and 2^53 + 1 rounds (ties-to-even) back to 2^53.
TwoPow53 == <<"9", "0", "0", "7", "1", "9", "9", "2", "5", "4", "7", "4", "0", "9", "9", "2">>

RECURSIVE StripZeros(_)
StripZeros(ds) ==
  IF ds = <<>> THEN Zero
  ELSE IF Head(ds) = "0" /\ Len(ds) > 1 THEN StripZeros(Tail(ds))
  ELSE ds

DigitSeq == <<"0", "1", "2", "3", "4", "5", "6", "7", "8", "9">>

DigitValue == [d \in Digit |-> (CHOOSE i \in DOMAIN DigitSeq : DigitSeq[i] = d) - 1]

DigitVal(d) == DigitValue[d]

RECURSIVE LexLess(_, _)
LexLess(a, b) ==
  IF a = <<>> THEN FALSE
  ELSE IF Head(a) # Head(b) THEN DigitVal(Head(a)) < DigitVal(Head(b))
  ELSE LexLess(Tail(a), Tail(b))

\* a < b on numerals
NumLess(a, b) == Len(a) < Len(b) \/ (Len(a) = Len(b) /\ LexLess(a, b))

RECURSIVE DecSucc(_)
DecSucc(ds) ==
  IF ds = <<>> THEN <<"1">>
  ELSE LET l == ds[Len(ds)]
           i == SubSeq(ds, 1, Len(ds) - 1)
       IN  IF l = "9" THEN Append(DecSucc(i), "0")
           ELSE Append(i, DigitSeq[DigitVal(l) + 2])

NumSuccExact(n) == IF n = Zero THEN <<"1">> ELSE DecSucc(n)

\* n + 1 in double arithmetic, for 0 <= n <= 2^53
NumSucc(n) == IF n = TwoPow53 THEN TwoPow53 ELSE NumSuccExact(n)

\* Number.prototype.toString() of a non-negative integer below 1e21
numToString(n) == n

(***************************************************************************)
(* parseInt(string, 10)                                                    *)
(***************************************************************************)
RECURSIVE TrimLeft(_)
TrimLeft(s) == IF s # <<>> /\ Head(s) = " " THEN TrimLeft(Tail(s)) ELSE s

RECURSIVE DigitRun(_)
DigitRun(s) ==
  IF s # <<>> /\ Head(s) \in Digit THEN <<Head(s)>> \o DigitRun(Tail(s)) ELSE <<>>

NaN == [nan |-> TRUE, neg |-> FALSE, mag |-> Zero]

\* Leading white space is skipped, one sign is read, then the longest run of
\* digits; what follows the run is dropped and an empty run gives NaN.  The
\* magnitude is exact for runs that denote at most 2^53.
parseInt(s) ==
  LET t   == TrimLeft(s)
      sgn == t # <<>> /\ Head(t) \in {"+", "-"}
      u   == IF sgn THEN Tail(t) ELSE t
      run == DigitRun(u)
  IN  IF run = <<>> THEN NaN
      ELSE [nan |-> FALSE, neg |-> sgn /\ Head(t) = "-", mag |-> StripZeros(run)]

\* !isNaN(num) && num > max, for a max >= 0
Exceeds(num, max) == ~num.nan /\ ~num.neg /\ NumLess(max, num.mag)

(***************************************************************************)
(* Identifier generator (server/idgen.ts and src/utils/idGenerator.ts)     *)
(***************************************************************************)
\* Faulty variant: no character is transliterated
umlautsKept(c) == c

UMLAUT_MAP(c) ==
  IF c \in {"a~", "A~"} THEN "A"
  ELSE IF c \in {"o~", "O~"} THEN "O"
  ELSE IF c \in {"u~", "U~"} THEN "U"
  ELSE IF c = "sz" THEN "S"
  ELSE c

RECURSIVE MapUmlauts(_)
MapUmlauts(s) == IF s = <<>> THEN <<>> ELSE <<UMLAUT_MAP(Head(s))>> \o MapUmlauts(Tail(s))

\* .replace(/[^a-zA-Z]/g, '')
RECURSIVE StripNonLetters(_)
StripNonLetters(s) ==
  IF s = <<>> THEN <<>>
  ELSE IF IsAsciiLetter(Head(s)) THEN <<Head(s)>> \o StripNonLetters(Tail(s))
  ELSE StripNonLetters(Tail(s))

getTopicAbbreviation(topic) ==
  LET normalized == toUpperCase(StripNonLetters(MapUmlauts(topic)))
  IN  padEnd(sliceTo(normalized, 3), 3, "X")

Formel     == <<"F", "o", "r", "m", "e", "l">>
Definition == <<"D", "e", "f", "i", "n", "i", "t", "i", "o", "n">>
Graph      == <<"G", "r", "a", "p", "h">>
Erklaerung == <<"E", "r", "k", "l", "a~", "r", "u", "n", "g">>

UndefinedText == <<"u", "n", "d", "e", "f", "i", "n", "e", "d">>

TYPE_INITIAL_MAP(type) ==
  IF type = Formel THEN <<"F">>
  ELSE IF type = Definition THEN <<"D">>
  ELSE IF type = Graph THEN <<"G">>
  ELSE IF type = Erklaerung THEN <<"E">>
  ELSE <<>>

\* server: map[type] || type.charAt(0).toUpperCase()
getTypeInitial(type) ==
  IF TYPE_INITIAL_MAP(type) # <<>> THEN TYPE_INITIAL_MAP(type)
  ELSE toUpperCase(sliceTo(type, 1))

\* client: TYPE_INITIAL_MAP[type], which is undefined for a type outside the
\* map and is then printed by the template literal as "undefined"
getTypeInitialClient(type) ==
  IF TYPE_INITIAL_MAP(type) # <<>> THEN TYPE_INITIAL_MAP(type) ELSE UndefinedText

idPrefix(abbr, initial) == abbr \o <<"-">> \o initial \o <<"-">>

\* The loop over existingIds only accumulates a maximum, so the array is
\* modelled by the set of its elements.
maxNumber(prefix, existingIds) ==
  LET nums == {parseInt(sliceFrom(id, Len(prefix))) :
                 id \in {i \in existingIds : startsWith(i, prefix)}}
      cand == {n.mag : n \in {m \in nums : Exceeds(m, Zero)}} \cup {Zero}
  IN  CHOOSE m \in cand : \A x \in cand : ~NumLess(m, x)

\* Faulty variant: the next number is the maximum itself
nextNumberNoIncrement(max) == max

nextNumber(max) == NumSucc(max)

generateCardId(topic, type, existingIds) ==
  LET prefix == idPrefix(getTopicAbbreviation(topic), getTypeInitial(type))
      max    == maxNumber(prefix, existingIds)
  IN  prefix \o padStart(numToString(nextNumber(max)), 3, "0")

generateCardIdClient(topic, type, existingIds) ==
  LET prefix    == idPrefix(getTopicAbbreviation(topic), getTypeInitialClient(type))
      maxNum    == maxNumber(prefix, existingIds)
      nextNum   == NumSucc(maxNum)
  IN  prefix \o padStart(numToString(nextNum), 3, "0")

(***************************************************************************)
(* Card records and the store (server/db.ts)                               *)
(*                                                                         *)
(* A card (a JSON object) is a function from the names of the properties  *)
(* it has to their values.  The columns that carry no logic (content,      *)
(* latex, variables, ...) are passed through by every operation and are    *)
(* left out; request bodies are taken to carry a content string, as the    *)
(* Card type requires.                                                     *)
(***************************************************************************)
\* the value undefined (what reading a missing property gives)
Undef == <<"undefined">>

Get(card, f) == IF f \in DOMAIN card THEN card[f] ELSE Undef

\* `${v}` in a template literal
TemplateStr(v) == IF v = Undef THEN UndefinedText ELSE v

\* !v is false
Truthy(v) == v # Undef /\ v # <<>>

\* { ...card, [f]: v }
\* Faulty variant: a field the card already has is kept
WithFieldIfAbsent(card, f, v) ==
  [x \in DOMAIN card \cup {f} |-> IF x \in DOMAIN card THEN card[x] ELSE v]

WithField(card, f, v) == [x \in DOMAIN card \cup {f} |-> IF x = f THEN v ELSE card[x]]

\* { ...a, ...b }
Spread(a, b) == [x \in DOMAIN a \cup DOMAIN b |-> IF x \in DOMAIN b THEN b[x] ELSE a[x]]

Theorie         == <<"T", "h", "e", "o", "r", "i", "e">>
Klausuraufgaben == <<"K", "l", "a", "u", "s", "u", "r", "a", "u", "f", "g", "a", "b", "e", "n">>

cardToRow(card) ==
  [id       |-> Get(card, "id"),
   topic    |-> Get(card, "topic"),
   type     |-> Get(card, "type"),
   category |-> IF Get(card, "category") = Undef THEN Theorie ELSE Get(card, "category"),
   title    |-> Get(card, "title")]

\* Faulty variant: the row is read back without its title
rowToCardNoTitle(row) ==
  [id |-> row.id, topic |-> row.topic, type |-> row.type,
   category |-> row.category, title |-> Undef]

rowToCard(row) ==
  [id |-> row.id, topic |-> row.topic, type |-> row.type,
   category |-> row.category, title |-> row.title]

\* A statement runs only if every bound value is a string (undefined cannot
\* be bound, and id, topic, type and title are NOT NULL columns).
Bindable(row) ==
  /\ row.id # Undef
  /\ row.topic # Undef
  /\ row.type # Undef
  /\ row.title # Undef

getAllCards(rs) == {rowToCard(r) : r \in rs}

\* Faulty variant: the handler reads no stored ids
getAllIdsNone(rs) == {}

getAllIds(rs) == {r.id : r \in rs}

hasId(rs, id) == \E r \in rs : r.id = id

getCardById(rs, id) == rowToCard(CHOOSE r \in rs : r.id = id)

\* INSERT: fails (throws) on a value that cannot be bound and on a primary
\* key that is already stored.
insertCard(rs, card) ==
  LET row == cardToRow(card)
  IN  IF ~Bindable(row) \/ hasId(rs, row.id)
        THEN [ok |-> FALSE, rows |-> rs]
        ELSE [ok |-> TRUE, rows |-> rs \cup {row}]

\* INSERT ... ON CONFLICT(id) DO UPDATE
upsertRow(rs, row) == {r \in rs : r.id # row.id} \cup {row}

\* db.transaction: every card is upserted, or none is when one throws
RECURSIVE bulkUpsertFrom(_, _)
bulkUpsertFrom(rs, cards) ==
  IF cards = <<>> THEN rs
  ELSE bulkUpsertFrom(upsertRow(rs, cardToRow(Head(cards))), Tail(cards))

bulkUpsert(rs, cards) ==
  IF \A i \in DOMAIN cards : Bindable(cardToRow(cards[i]))
    THEN [ok |-> TRUE, rows |-> bulkUpsertFrom(rs, cards)]
    ELSE [ok |-> FALSE, rows |-> rs]

\* Faulty variant: the id of the request does not override the one in the updates
mergeUpdateKeepsPayloadId(existing, updates, id) == Spread(existing, updates)

mergeUpdate(existing, updates, id) == WithField(Spread(existing, updates), "id", id)

\* Faulty variant: an id that is not stored gets a row of its own (an upsert)
updateCardUpserts(rs, id, updates) ==
  LET row == cardToRow(WithField(updates, "id", id))
  IN  IF ~Bindable(row) THEN [found |-> hasId(rs, id), ok |-> ~hasId(rs, id), rows |-> rs]
      ELSE [found |-> TRUE, ok |-> TRUE, rows |-> upsertRow(rs, row)]

\* UPDATE ... WHERE id = @id
updateCard(rs, id, updates) ==
  IF ~hasId(rs, id) THEN [found |-> FALSE, ok |-> TRUE, rows |-> rs]
  ELSE LET row == cardToRow(mergeUpdate(getCardById(rs, id), updates, id))
       IN  IF ~Bindable(row) THEN [found |-> TRUE, ok |-> FALSE, rows |-> rs]
           ELSE [found |-> TRUE, ok |-> TRUE,
                 rows  |-> {IF r.id = row.id THEN row ELSE r : r \in rs}]

deleteCard(rs, id) ==
  [found |-> hasId(rs, id), rows |-> {r \in rs : r.id # id}]

(***************************************************************************)
(* Request handlers (server/index.ts).  Each one runs from its first       *)
(* statement to its response without yielding: the store calls are         *)
(* synchronous and there is no await in a handler.                         *)
(***************************************************************************)
Sep == <<"|", "|", "|">>

\* `${c.title}|||${c.topic}|||${c.type}`
fingerprint(c) ==
  TemplateStr(Get(c, "title")) \o Sep \o TemplateStr(Get(c, "topic"))
    \o Sep \o TemplateStr(Get(c, "type"))

\* Faulty variant: the fingerprints of the stored cards leave out the type
existingFingerprintsNoType(rs) ==
  {TemplateStr(Get(c, "title")) \o Sep \o TemplateStr(Get(c, "topic")) :
     c \in getAllCards(rs)}

existingFingerprints(rs) == {fingerprint(c) : c \in getAllCards(rs)}

\* Faulty variant: the generated id is not added to the pool of the batch
pushIdForgets(allIds, id) == allIds

\* allIds.push(id)
pushId(allIds, id) == allIds \cup {id}

\* Faulty variant: the fingerprint of an imported card joins the fingerprints
\* the later candidates are compared with
RECURSIVE importLoopSeesBatch(_, _, _, _, _)
importLoopSeesBatch(cards, fps, allIds, imported, duplicates) ==
  IF cards = <<>>
    THEN [threw |-> FALSE, imported |-> imported, duplicates |-> duplicates]
  ELSE LET card == Head(cards)
       IN  IF fingerprint(card) \in fps
             THEN importLoopSeesBatch(Tail(cards), fps, allIds, imported,
                                      Append(duplicates, card))
           ELSE IF Get(card, "topic") = Undef \/ Get(card, "type") = Undef
             THEN [threw |-> TRUE, imported |-> imported, duplicates |-> duplicates]
           ELSE LET id == generateCardId(Get(card, "topic"), Get(card, "type"), allIds)
                IN  importLoopSeesBatch(Tail(cards), fps \cup {fingerprint(card)},
                                        pushId(allIds, id),
                                        Append(imported, WithField(card, "id", id)),
                                        duplicates)

\* The for loop of the import handler.  generateCardId throws on a topic or
\* type that is undefined (topic.split, type.charAt).
RECURSIVE importLoop(_, _, _, _, _)
importLoop(cards, fps, allIds, imported, duplicates) ==
  IF cards = <<>>
    THEN [threw |-> FALSE, imported |-> imported, duplicates |-> duplicates]
  ELSE LET card == Head(cards)
       IN  IF fingerprint(card) \in fps
             THEN importLoop(Tail(cards), fps, allIds, imported, Append(duplicates, card))
           ELSE IF Get(card, "topic") = Undef \/ Get(card, "type") = Undef
             THEN [threw |-> TRUE, imported |-> imported, duplicates |-> duplicates]
           ELSE LET id == generateCardId(Get(card, "topic"), Get(card, "type"), allIds)
                IN  importLoop(Tail(cards), fps, pushId(allIds, id),
                               Append(imported, WithField(card, "id", id)), duplicates)

RECURSIVE idsOf(_)
idsOf(cards) == IF cards = <<>> THEN <<>> ELSE <<Get(Head(cards), "id")>> \o idsOf(Tail(cards))

Response(status, rs, ids, imported, duplicates) ==
  [status |-> status, rows |-> rs, ids |-> ids,
   imported |-> imported, duplicates |-> duplicates]

\* POST /api/cards
postCard(rs, card) ==
  IF ~Truthy(Get(card, "title")) \/ ~Truthy(Get(card, "topic")) \/ ~Truthy(Get(card, "type"))
    THEN Response(400, rs, <<>>, 0, 0)
  ELSE LET id  == generateCardId(Get(card, "topic"), Get(card, "type"), getAllIds(rs))
           ins == insertCard(rs, WithField(card, "id", id))
       IN  IF ins.ok THEN Response(201, ins.rows, <<id>>, 0, 0)
           ELSE Response(500, rs, <<>>, 0, 0)

\* PUT /api/cards/:id
putCard(rs, id, updates) ==
  LET u == updateCard(rs, id, updates)
  IN  IF ~u.found THEN Response(404, rs, <<>>, 0, 0)
      ELSE IF ~u.ok THEN Response(500, rs, <<>>, 0, 0)
      ELSE Response(200, u.rows, <<>>, 0, 0)

\* DELETE /api/cards/:id
deleteCardById(rs, id) ==
  LET d == deleteCard(rs, id)
  IN  IF ~d.found THEN Response(404, rs, <<>>, 0, 0)
      ELSE Response(200, d.rows, <<>>, 0, 0)

\* POST /api/cards/import; body = [isArray, cards]
postImport(rs, body) ==
  IF ~body.isArray THEN Response(400, rs, <<>>, 0, 0)
  ELSE LET loop == importLoop(body.cards, existingFingerprints(rs), getAllIds(rs),
                              <<>>, <<>>)
           up   == IF loop.imported # <<>> THEN bulkUpsert(rs, loop.imported)
                   ELSE [ok |-> TRUE, rows |-> rs]
       IN  IF loop.threw \/ ~up.ok THEN Response(500, rs, <<>>, 0, 0)
           ELSE Response(200, up.rows, idsOf(loop.imported),
                         Len(loop.imported), Len(loop.duplicates))

(***************************************************************************)
(* The client's import (ImportModal.handleImport, cardStore.importCards).  *)
(* The client's card list is the one it loaded from the server.            *)
(***************************************************************************)
\* `${c.title}|||${c.topic}|||${c.type}|||${category}`
fingerprintWith(c, category) == fingerprint(c) \o Sep \o TemplateStr(category)

\* validateAndParse: the candidates shown as duplicates
parsedDuplicates(existingCards, cards, selectedCategory) ==
  LET fps == {fingerprintWith(c, Get(c, "category")) : c \in existingCards}
  IN  SelectSeq(cards, LAMBDA c : fingerprintWith(c, selectedCategory) \in fps)

\* validateAndParse accepts a non-empty array of cards with title, topic, type
parseAccepts(cards) ==
  /\ cards # <<>>
  /\ \A i \in DOMAIN cards :
       /\ Truthy(Get(cards[i], "title"))
       /\ Truthy(Get(cards[i], "topic"))
       /\ Truthy(Get(cards[i], "type"))

\* handleImport: the cards sent to the server under a strategy
dataToImport(cards, duplicates, strategy, selectedCategory) ==
  IF strategy = "skip_all" /\ duplicates # <<>>
    THEN LET dupFingerprints ==
               {fingerprintWith(duplicates[i], selectedCategory) : i \in DOMAIN duplicates}
         IN  SelectSeq(cards, LAMBDA c : fingerprintWith(c, selectedCategory) \notin dupFingerprints)
    ELSE cards

handleImport(rs, cards, strategy, selectedCategory) ==
  LET duplicates == parsedDuplicates(getAllCards(rs), cards, selectedCategory)
  IN  postImport(rs, [isArray |-> TRUE,
                      cards   |-> dataToImport(cards, duplicates, strategy, selectedCategory)])

(***************************************************************************)
(* FlashcardView: the drill session.  view holds the component's state     *)
(* (phase, deck, currentIndex, isFlipped, knownCount, totalSeen); React    *)
(* renders after every click and key press, so each handler sees the state *)
(* the previous one left.  Indices are the 0-based indices of the code.    *)
(***************************************************************************)
\* how many cards the card list of the view holds at most
MaxCards == 4

\* how many times again() is answered in one session
MaxAgain == 2

Karte(k) == <<"card", k>>

\* deck[currentIndex] of an index outside the array
NoCard == <<"undefined">>

\* the cards prop: the first n cards of the collection
CardList(n) == [i \in 1..n |-> Karte(i)]

\* useState initial values
ViewInit ==
  [phase |-> "setup", deck |-> <<>>, currentIndex |-> 0, isFlipped |-> FALSE,
   knownCount |-> 0, totalSeen |-> 0]

\* deck[i] for a 0-based i
At(deck, i) == IF i >= 0 /\ i < Len(deck) THEN deck[i + 1] ELSE NoCard

currentCard(v) == At(v.deck, v.currentIndex)

\* [...cards].sort(() => Math.random() - 0.5): some rearrangement of cards
Shuffles ==
  [n \in 0..MaxCards |->
     {f \in [1..n -> Range(CardList(n))] : \A i \in 1..n, j \in 1..n : f[i] = f[j] => i = j}]

\* Faulty variant: the counters of the session before are not reset
startLearningKeepsCounters(v, cards, shuffled) ==
  IF Len(cards) = 0 THEN v
  ELSE [phase |-> "learning", deck |-> shuffled, currentIndex |-> 0,
        isFlipped |-> FALSE, knownCount |-> v.knownCount, totalSeen |-> v.totalSeen]

\* Faulty variant: a deck that exists is shuffled again, the card list is not read
startLearningFromDeck(v, cards, shuffled) ==
  IF Len(cards) = 0 THEN v
  ELSE [phase |-> "learning",
        deck |-> IF v.deck = <<>> THEN shuffled ELSE v.deck,
        currentIndex |-> 0, isFlipped |-> FALSE, knownCount |-> 0, totalSeen |-> 0]

startLearning(v, cards, shuffled) ==
  IF Len(cards) = 0 THEN v
  ELSE [phase |-> "learning", deck |-> shuffled, currentIndex |-> 0,
        isFlipped |-> FALSE, knownCount |-> 0, totalSeen |-> 0]

handleFlip(v) == [v EXCEPT !.isFlipped = ~v.isFlipped]

\* Faulty variant: the known card is counted twice
knownPlusTwo(prev) == prev + 2

\* setKnownCount((prev) => prev + 1)
knownPlusOne(prev) == prev + 1

\* Faulty variant: the session ends one card early
isLastCardEarly(currentIndex, length) == currentIndex + 2 >= length

\* currentIndex + 1 >= deck.length
isLastCard(currentIndex, length) == currentIndex + 1 >= length

handleKnown(v) ==
  LET counted == [v EXCEPT !.knownCount = knownPlusOne(v.knownCount),
                           !.totalSeen = v.totalSeen + 1,
                           !.isFlipped = FALSE]
  IN  IF isLastCard(v.currentIndex, Len(v.deck))
        THEN [counted EXCEPT !.phase = "done"]
        ELSE [counted EXCEPT !.currentIndex = v.currentIndex + 1]

\* Faulty variant: the card is appended and not taken out
pushOnly(prev, currentIndex) == Append(prev, At(prev, currentIndex))

\* Faulty variant: the card is put at the front of the deck
moveToFront(prev, currentIndex) ==
  <<At(prev, currentIndex)>> \o
    [i \in 1..(Len(prev) - 1) |-> IF i <= currentIndex THEN prev[i] ELSE prev[i + 1]]

\* updated.splice(currentIndex, 1)[0]; updated.push(card)
moveToEnd(prev, currentIndex) ==
  IF currentIndex >= 0 /\ currentIndex < Len(prev)
    THEN Append([i \in 1..(Len(prev) - 1) |->
                   IF i <= currentIndex THEN prev[i] ELSE prev[i + 1]],
                prev[currentIndex + 1])
    ELSE Append(prev, NoCard)

\* Faulty variant: the index steps back when the last card is moved
indexAfterAgainClamped(currentIndex, length) ==
  IF currentIndex >= length - 1 /\ currentIndex > 0 THEN currentIndex - 1 ELSE currentIndex

\* Faulty variant: the index moves on after the card was taken out
indexAfterAgainAdvances(currentIndex, length) == currentIndex + 1

\* if (currentIndex >= deck.length - 1) setCurrentIndex(currentIndex)
indexAfterAgain(currentIndex, length) == currentIndex

handleAgain(v) ==
  [v EXCEPT !.totalSeen = v.totalSeen + 1,
            !.isFlipped = FALSE,
            !.deck = moveToEnd(v.deck, v.currentIndex),
            !.currentIndex = indexAfterAgain(v.currentIndex, Len(v.deck))]

\* Faulty variant: the arrow keys answer a card that is not flipped
keyAnswersAnyFace(v) == TRUE

\* e.key === 'ArrowRight' && isFlipped, e.key === 'ArrowLeft' && isFlipped
keyAnswers(v) == v.isFlipped

\* the Nochmal / Gewusst buttons are rendered
buttonsShown(v) == v.phase = "learning" /\ currentCard(v) # NoCard /\ v.isFlipped

\* The handler a key press reaches: the listener exists in the learning
\* phase only, the space bar flips, the arrow keys answer.
dispatch(v, key) ==
  IF v.phase # "learning" THEN "none"
  ELSE IF key = "Space" THEN "handleFlip"
  ELSE IF key = "ArrowRight" /\ keyAnswers(v) THEN "handleKnown"
  ELSE IF key = "ArrowLeft" /\ keyAnswers(v) THEN "handleAgain"
  ELSE "none"

run(handler, v) ==
  IF handler = "handleFlip" THEN handleFlip(v)
  ELSE IF handler = "handleKnown" THEN handleKnown(v)
  ELSE IF handler = "handleAgain" THEN handleAgain(v)
  ELSE v

\* Math.round((knownCount / totalCards) * 100), 0 for an empty deck
percentage(v) ==
  LET totalCards == Len(v.deck)
  IN  IF totalCards > 0
        THEN (200 * v.knownCount + totalCards) \div (2 * totalCards)
        ELSE 0

\* What the model remembers of a session beside the view: the card list the
\* session was started with, the last input, the cards answered again at
\* least once, the cards whose last answer is not "known", and the number of
\* again() answers.
NoInput == [input |-> "none", ran |-> "none"]

SessionNone ==
  [cards |-> <<>>, ev |-> NoInput, repeated |-> {}, unknown |-> {}, agains |-> 0]

ViewIdle == view = ViewInit /\ session = SessionNone

(***************************************************************************)
(* Bounds and the requests the model sends                                 *)
(***************************************************************************)
\* how many distinct ids are handed out in one behaviour
MaxIssued == 3

\* how many cards one import request carries
MaxBatch == 2

TitleA == <<"A">>
TitleB == <<"B">>

Zugversuch == <<"Z", "u", "g", "v", "e", "r", "s", "u", "c", "h">>
Waerme     == <<"W", "a~", "r", "m", "e">>

Card(title, topic, type) == [title |-> title, topic |-> topic, type |-> type]

Candidates ==
  { Card(TitleA, Zugversuch, Formel),
    Card(TitleB, Zugversuch, Formel),
    Card(TitleA, Waerme, Definition) }

Batches == UNION {[1..n -> Candidates] : n \in 0..MaxBatch}

IdZugF2 == <<"Z", "U", "G", "-", "F", "-", "0", "0", "2">>
IdNone  == <<"X", "X", "X", "-", "X", "-", "0", "0", "1">>

Updates ==
  { [topic |-> Waerme, type |-> Definition],
    [title |-> TitleB, id |-> IdZugF2] }

Strategies == {"replace_all", "skip_all"}

Categories == {Theorie, Klausuraufgaben}

Callers == {"c1", "c2"}

NoRequest == [kind |-> "none", cards |-> <<>>]

NoResult == [status |-> 0, ids |-> <<>>, overlap |-> FALSE]

GenIdle == [pc |-> "idle", topic |-> <<>>, type |-> <<>>, ids |-> {},
            id |-> <<>>, idClient |-> <<>>]

FnIdle == [pc |-> "idle"]

LastNone ==
  [op |-> "none", status |-> 0, req |-> <<>>, ids |-> <<>>, imported |-> 0,
   duplicates |-> 0, strategy |-> "none", offered |-> 0, target |-> <<>>,
   repeat |-> FALSE]

Init ==
  /\ rows = {}
  /\ last = LastNone
  /\ issued = {}
  /\ pending = [c \in Callers |-> NoRequest]
  /\ served = [c \in Callers |-> NoResult]
  /\ gen = GenIdle
  /\ ViewIdle
  /\ fn = FnIdle

\* The effect of a handled request on the store, and the record of it: the
\* response, the ids it assigned, for an import the cards the server got, and
\* for an update or a delete the id in the URL.
Handled(op, r, req, strategy, offered, target) ==
  /\ Cardinality(issued \cup Range(r.ids)) <= MaxIssued
  /\ rows' = r.rows
  /\ issued' = issued \cup Range(r.ids)
  /\ last' = [op |-> op, status |-> r.status, req |-> req, ids |-> r.ids,
              imported |-> r.imported, duplicates |-> r.duplicates,
              strategy |-> strategy, offered |-> offered, target |-> target,
              repeat |-> /\ op = "import"
                         /\ last.op = "import"
                         /\ last.status = 200
                         /\ req # <<>>
                         /\ last.req = req]
  /\ UNCHANGED <<pending, served, gen, view, session, fn>>

Create(card) == Handled("create", postCard(rows, card), <<>>, "none", 0, <<>>)

Update(id, updates) ==
  Handled("update", putCard(rows, id, updates), <<>>, "none", 0, id)

Delete(id) == Handled("delete", deleteCardById(rows, id), <<>>, "none", 0, id)

\* cardStore.updateCard: { ...cards[index], ...updates, id }
storeUpdatedCard(card, updates, id) == WithField(Spread(card, updates), "id", id)

\* cardStore.updateCard followed by db.saveCard: the client merges the updates
\* into its copy of the card and PUTs the whole card under the card's id; it
\* sends nothing for an id it does not hold.
SaveCard(id, updates) ==
  /\ hasId(rows, id)
  /\ LET updatedCard == storeUpdatedCard(getCardById(rows, id), updates, id)
     IN  Handled("update", putCard(rows, Get(updatedCard, "id"), updatedCard),
                 <<>>, "none", 0, id)

\* POST /api/cards/import; the record keeps no copy of the request
Import(cards) ==
  Handled("import", postImport(rows, [isArray |-> TRUE, cards |-> cards]),
          <<>>, "none", 0, <<>>)

\* POST /api/cards/import; the record keeps the cards that were sent
ImportBatch(cards) ==
  Handled("import", postImport(rows, [isArray |-> TRUE, cards |-> cards]),
          cards, "none", 0, <<>>)

HandleImport(cards, strategy, selectedCategory) ==
  /\ parseAccepts(cards)
  /\ Handled("handleImport", handleImport(rows, cards, strategy, selectedCategory),
             <<>>, strategy, Len(cards), <<>>)

Next ==
  \/ \E card \in Candidates : Create(card)
  \/ \E id \in getAllIds(rows) \cup {IdNone}, updates \in Updates : Update(id, updates)
  \/ \E id \in getAllIds(rows), updates \in Updates : SaveCard(id, updates)
  \/ \E id \in getAllIds(rows) \cup {IdNone} : Delete(id)
  \/ \E cards \in Batches : Import(cards)

Spec == Init /\ [][Next]_vars

\* The import dialog of the client in front of the same server.
NextClient ==
  \/ \E card \in Candidates : Create(card)
  \/ \E id \in getAllIds(rows) : Delete(id)
  \/ \E cards \in Batches, strategy \in Strategies, category \in Categories :
       HandleImport(cards, strategy, category)

ClientSpec == Init /\ [][NextClient]_vars

\* Imports whose requests are remembered, to compare one import with the next.
NextImport ==
  \/ \E card \in Candidates : Create(card)
  \/ \E id \in getAllIds(rows) \cup {IdNone} : Delete(id)
  \/ \E cards \in Batches : ImportBatch(cards)

ImportSpec == Init /\ [][NextImport]_vars

(***************************************************************************)
(* Two callers in front of the one server process.  A request waits in     *)
(* pending until the event loop runs its handler, which then runs whole.   *)
(***************************************************************************)
\* The two callers send cards of one topic and type, so that their ids are
\* drawn from one sequence.
Requests ==
  LET same == {c \in Candidates : c.topic = Zugversuch /\ c.type = Formel}
  IN  {[kind |-> "create", cards |-> <<c>>] : c \in same}
        \cup {[kind |-> "import", cards |-> b] :
                 b \in {x \in Batches : x # <<>> /\ Range(x) \subseteq same}}

Submit(c, req) ==
  /\ pending[c] = NoRequest
  /\ pending' = [pending EXCEPT ![c] = req]
  /\ served' = [served EXCEPT ![c] = NoResult]
  /\ UNCHANGED <<rows, last, issued, gen, view, session, fn>>

Serve(c) ==
  /\ pending[c] # NoRequest
  /\ LET r == IF pending[c].kind = "create"
                THEN postCard(rows, pending[c].cards[1])
                ELSE postImport(rows, [isArray |-> TRUE, cards |-> pending[c].cards])
     IN  /\ Cardinality(issued \cup Range(r.ids)) <= MaxIssued
         /\ rows' = r.rows
         /\ issued' = issued \cup Range(r.ids)
         /\ served' = [served EXCEPT ![c] =
                         [status  |-> r.status, ids |-> r.ids,
                          overlap |-> \E d \in Callers \ {c} : pending[d] # NoRequest]]
  /\ pending' = [pending EXCEPT ![c] = NoRequest]
  /\ UNCHANGED <<last, gen, view, session, fn>>

NextConc ==
  \/ \E c \in Callers, req \in Requests : Submit(c, req)
  \/ \E c \in Callers : Serve(c)

\* The event loop runs the handler of every request that has arrived.
ConcSpec == Init /\ [][NextConc]_vars /\ \A c \in Callers : WF_vars(Serve(c))

(***************************************************************************)
(* generateCardId as a function of its arguments                           *)
(***************************************************************************)
\* how many ids the existingIds argument holds
MaxIds == 3

PrefixZugF == <<"Z", "U", "G", "-", "F", "-">>
PrefixZugD == <<"Z", "U", "G", "-", "D", "-">>
PrefixWarD == <<"W", "A", "R", "-", "D", "-">>

IdPool ==
  { PrefixZugF \o <<"0", "0", "1">>,
    PrefixZugF \o <<"0", "0", "3">>,
    PrefixWarD \o <<"0", "0", "2">>,
    PrefixZugD \o <<"0", "0", "7">>,
    PrefixZugF \o <<"9", "9", "9">>,
    PrefixZugF \o <<"1", "2", "a">>,
    PrefixZugF,
    PrefixZugF \o TwoPow53 }

Tabelle == <<"T", "a", "b", "e", "l", "l", "e">>

GenTopics == {Zugversuch, Waerme}

GenTypes == {Formel, Definition, Tabelle}

GenInputs ==
  {[pc |-> "input", topic |-> t, type |-> y, ids |-> ids, id |-> <<>>, idClient |-> <<>>] :
     t \in GenTopics, y \in GenTypes,
     ids \in {S \in SUBSET IdPool : Cardinality(S) <= MaxIds}}

GenInit ==
  /\ rows = {}
  /\ last = LastNone
  /\ issued = {}
  /\ pending = [c \in Callers |-> NoRequest]
  /\ served = [c \in Callers |-> NoResult]
  /\ gen \in GenInputs
  /\ ViewIdle
  /\ fn = FnIdle

Generate ==
  /\ gen.pc = "input"
  /\ gen' = [gen EXCEPT !.pc = "done",
                        !.id = generateCardId(gen.topic, gen.type, gen.ids),
                        !.idClient = generateCardIdClient(gen.topic, gen.type, gen.ids)]
  /\ UNCHANGED <<rows, last, issued, pending, served, view, session, fn>>

GenNext == Generate

GenSpec == GenInit /\ [][GenNext]_vars

(***************************************************************************)
(* Claims about generateCardId (GenSpec)                                   *)
(***************************************************************************)
\* C1: for every topic, type and collection existingIds, the id returned by
\* generateCardId (server and client copy) is not an element of existingIds.
C1_GeneratedIdNotInExistingIds ==
  gen.pc = "done" => gen.id \notin gen.ids /\ gen.idClient \notin gen.ids

\* The suffix of an id is a plain base-10 number: digits and nothing else.
PlainNumber(sfx) == sfx # <<>> /\ \A i \in DOMAIN sfx : sfx[i] \in Digit

\* The largest numeric suffix among the ids that start with prefix, 0 if none.
LargestSuffix(prefix, ids) ==
  LET sfx  == {sliceFrom(id, Len(prefix)) : id \in {i \in ids : startsWith(i, prefix)}}
      nums == {StripZeros(x) : x \in {y \in sfx : PlainNumber(y)}} \cup {Zero}
  IN  CHOOSE m \in nums : \A x \in nums : ~NumLess(m, x)

ExpectedId(prefix, ids) ==
  prefix \o padStart(NumSuccExact(LargestSuffix(prefix, ids)), 3, "0")

\* C5: generateCardId returns the prefix '<abbr>-<initial>-' followed by
\* max+1 padded with zeros to at least 3 digits, max being the largest
\* numeric suffix among the ids with that prefix (0 if there is none).
C5_PrefixThenMaxPlusOne ==
  gen.pc = "done" =>
    /\ gen.id = ExpectedId(idPrefix(getTopicAbbreviation(gen.topic),
                                    getTypeInitial(gen.type)), gen.ids)
    /\ gen.idClient = ExpectedId(idPrefix(getTopicAbbreviation(gen.topic),
                                          getTypeInitialClient(gen.type)), gen.ids)

(***************************************************************************)
(* Claims about sequences of requests (Spec)                               *)
(***************************************************************************)
\* An id of the form ABC-X-nnn: its prefix and the number after it.
PrefixOf(id) == sliceTo(id, 6)

NumberOf(id) == StripZeros(sliceFrom(id, 6))

Assigned == Range(last.ids)

IsInsertStep == last'.op \in {"create", "import"}

\* C2: the id assigned by a create or import is never the id of a card
\* already stored; every stored card has its own id, and a create or import
\* leaves every card stored before it as it was.
C2_AssignedIdsAreNew ==
  /\ [](\A r1 \in rows, r2 \in rows : r1.id = r2.id => r1 = r2)
  /\ [][IsInsertStep =>
          /\ Range(last'.ids) \cap getAllIds(rows) = {}
          /\ Range(last'.ids) \subseteq getAllIds(rows')
          /\ rows \subseteq rows']_vars

C2_Witness ==
  /\ last.op = "import"
  /\ Len(last.ids) = 2
  /\ Cardinality(rows) = 3

\* C3 as stated: within one prefix the suffixes handed out over time are
\* strictly increasing and never reused, also after a deletion.
C3_NeverReused ==
  [][IsInsertStep =>
       \A i \in DOMAIN last'.ids :
         /\ last'.ids[i] \notin issued
         /\ \A x \in issued :
              PrefixOf(x) = PrefixOf(last'.ids[i])
                => NumLess(NumberOf(x), NumberOf(last'.ids[i]))]_vars

\* C3 (amended): a create or import assigns a suffix greater than every suffix
\* of that prefix that is stored at that moment, and greater than the ones it
\* assigned earlier in the same request.
C3_AboveStoredSuffixes ==
  [][IsInsertStep =>
       \A i \in DOMAIN last'.ids :
         /\ \A r \in rows :
              PrefixOf(r.id) = PrefixOf(last'.ids[i])
                => NumLess(NumberOf(r.id), NumberOf(last'.ids[i]))
         /\ \A j \in 1..(i - 1) :
              PrefixOf(last'.ids[j]) = PrefixOf(last'.ids[i])
                => NumLess(NumberOf(last'.ids[j]), NumberOf(last'.ids[i]))]_vars

\* An id was assigned next to a stored card of its prefix, after a deletion.
C3_Witness ==
  /\ last.op \in {"create", "import"}
  /\ last.ids # <<>>
  /\ \E r \in rows : r.id \notin Assigned /\ PrefixOf(r.id) = PrefixOf(last.ids[1])
  /\ Cardinality(issued) > Cardinality(rows)

\* C4: an update never changes the id of a card: the stored ids are the same
\* before and after, the card updated is stored under the id of the request,
\* and no card with another id is created or changed.
C4_UpdateKeepsId ==
  [][last'.op = "update" =>
       /\ getAllIds(rows') = getAllIds(rows)
       /\ \A r \in rows : r.id # last'.target => r \in rows'
       /\ \A r \in rows' : r.id # last'.target => r \in rows]_vars

\* A card whose topic and type were changed still carries its old id.
C4_Witness ==
  /\ last.op = "update"
  /\ last.status = 200
  /\ \E r \in rows :
       PrefixOf(r.id) # idPrefix(getTopicAbbreviation(r.topic), getTypeInitial(r.type))
  /\ Cardinality(rows) >= 2

(***************************************************************************)
(* Claims about one import request (ImportSpec)                            *)
(***************************************************************************)
IsImportStep == last'.op = "import" /\ last'.status = 200

\* C6: within one import request the ids assigned are pairwise distinct and
\* differ from every id stored before the request, also when several of the
\* imported cards share topic and type.
C6_BatchIdsDistinct ==
  [][IsImportStep =>
       /\ \A i \in DOMAIN last'.ids, j \in DOMAIN last'.ids :
            i # j => last'.ids[i] # last'.ids[j]
       /\ Range(last'.ids) \cap getAllIds(rows) = {}]_vars

\* Two cards of one topic and type were imported next to a stored card.
C6_Witness ==
  /\ last.op = "import"
  /\ Len(last.ids) = 2
  /\ PrefixOf(last.ids[1]) = PrefixOf(last.ids[2])
  /\ \E r \in rows : r.id \notin Assigned /\ PrefixOf(r.id) = PrefixOf(last.ids[1])

\* The candidates of a batch whose fingerprint is (dup) or is not (~dup)
\* among the fingerprints of the cards in stored.
Matching(batch, stored, dup) ==
  SelectSeq(batch, LAMBDA c :
    (\E r \in stored : fingerprint(rowToCard(r)) = fingerprint(c)) <=> dup)

\* C7: every candidate whose fingerprint equals that of a card stored before
\* the request is counted as a duplicate, gets no id and is not inserted;
\* every other candidate gets an id and is inserted.
C7_DuplicatesSkippedOthersInserted ==
  [][IsImportStep =>
       LET fresh == Matching(last'.req, rows, FALSE)
           dups  == Matching(last'.req, rows, TRUE)
       IN  /\ last'.duplicates = Len(dups)
           /\ last'.imported = Len(fresh)
           /\ Len(last'.ids) = Len(fresh)
           /\ rows \subseteq rows'
           /\ Cardinality(rows' \ rows) = Len(fresh)
           /\ \A k \in DOMAIN fresh :
                \E r \in rows' \ rows :
                  /\ r.id = last'.ids[k]
                  /\ r.title = fresh[k].title
                  /\ r.topic = fresh[k].topic
                  /\ r.type = fresh[k].type]_vars

\* An import with a duplicate and a new card among its candidates.
C7_Witness ==
  /\ last.op = "import"
  /\ last.status = 200
  /\ last.duplicates >= 1
  /\ last.imported >= 1

\* C8: importing the same batch a second time, right after the first import,
\* imports nothing: imported = 0, duplicates = batch size, store unchanged.
C8_SecondImportImportsNothing ==
  [][last'.repeat =>
       /\ last'.imported = 0
       /\ last'.duplicates = Len(last'.req)
       /\ rows' = rows]_vars

\* A batch of two was imported a second time.
C8_Witness ==
  /\ last.repeat
  /\ Len(last.req) = 2
  /\ last.duplicates = 2

(***************************************************************************)
(* Claim about the import dialog (ClientSpec)                              *)
(***************************************************************************)
\* C9: with the strategy "replace all" the candidates whose fingerprint
\* matches an existing card are imported anyway: every candidate offered is
\* imported, none is skipped as a duplicate.
C9_ReplaceAllImportsDuplicates ==
  (last.op = "handleImport" /\ last.strategy = "replace_all" /\ last.status = 200)
    => (last.imported = last.offered /\ last.duplicates = 0)

(***************************************************************************)
(* Claims about two callers (ConcSpec)                                     *)
(***************************************************************************)
SharedId ==
  \E c \in Callers, d \in Callers :
    c # d /\ Range(served[c].ids) \cap Range(served[d].ids) # {}

\* The requests of both callers were handled and got ids, and one of them was
\* handled while the other was waiting: the two were in flight together.
BothServedTogether ==
  /\ \A c \in Callers : served[c].ids # <<>>
  /\ \E c \in Callers : served[c].overlap

Keys == {"Space", "ArrowRight", "ArrowLeft"}

\* The session after the handler ran on view v: a card answered "known" is
\* no longer unknown, a card answered "again" is unknown and repeated.
Tracked(input, handler, v) ==
  LET cur == currentCard(v)
  IN  [session EXCEPT
         !.ev = [input |-> input, ran |-> handler],
         !.unknown = IF handler = "handleKnown" THEN @ \ {cur}
                     ELSE IF handler = "handleAgain" THEN @ \cup {cur}
                     ELSE @,
         !.repeated = IF handler = "handleAgain" THEN @ \cup {cur} ELSE @,
         !.agains = IF handler = "handleAgain" THEN @ + 1 ELSE @]

Reached(input, handler) ==
  /\ handler = "handleAgain" => session.agains < MaxAgain
  /\ view' = run(handler, view)
  /\ session' = Tracked(input, handler, view)
  /\ UNCHANGED <<rows, last, issued, pending, served, gen, fn>>

\* the button that calls startLearning: "Lernen starten" in setup, "Nochmal
\* lernen" in done
startButton(v) == IF v.phase = "done" THEN "restart" ELSE "start"

\* "Lernen starten" (shown in setup when there are cards) and "Nochmal
\* lernen" (shown in done), with the card list the view holds at that moment
ClickStart(n, shuffled) ==
  /\ view.phase \in {"setup", "done"}
  /\ view.phase = "setup" => n > 0
  /\ view' = startLearning(view, CardList(n), shuffled)
  /\ session' = IF n = 0
                  THEN [session EXCEPT !.ev = [input |-> startButton(view), ran |-> "none"]]
                  ELSE [cards |-> CardList(n),
                        ev |-> [input |-> startButton(view), ran |-> "startLearning"],
                        repeated |-> {}, unknown |-> Range(CardList(n)), agains |-> 0]
  /\ UNCHANGED <<rows, last, issued, pending, served, gen, fn>>

\* a key press, in any phase
KeyDown(key) == Reached(key, dispatch(view, key))

\* a click on the card
ClickCard ==
  /\ view.phase = "learning"
  /\ currentCard(view) # NoCard
  /\ Reached("card", "handleFlip")

ClickKnown == buttonsShown(view) /\ Reached("Gewusst", "handleKnown")

ClickAgain == buttonsShown(view) /\ Reached("Nochmal", "handleAgain")

\* "Zurück" in the done phase
ClickBack ==
  /\ view.phase = "done"
  /\ view' = [view EXCEPT !.phase = "setup"]
  /\ session' = [session EXCEPT !.ev = [input |-> "back", ran |-> "none"]]
  /\ UNCHANGED <<rows, last, issued, pending, served, gen, fn>>

DeckNext ==
  \/ \E n \in 0..MaxCards : \E shuffled \in Shuffles[n] : ClickStart(n, shuffled)
  \/ \E key \in Keys : KeyDown(key)
  \/ ClickCard
  \/ ClickKnown
  \/ ClickAgain
  \/ ClickBack

DeckSpec == Init /\ [][DeckNext]_vars

(***************************************************************************)
(* Claims about the drill session (DeckSpec)                               *)
(***************************************************************************)
\* A session over four cards has ended; one card was answered again() once
\* and then know(), the three others know() on their first showing.
FourCardsOneRepeated ==
  /\ view.phase = "done"
  /\ Len(session.cards) = 4
  /\ session.agains = 1
  /\ Cardinality(session.repeated) = 1
  /\ session.unknown = {}

\* C11: a session over 4 cards with three cards known on their first showing
\* and one card answered again() once and then know() ends in Done with
\* knownCount = 3, totalSeen = 5 and percentage = 75.
C11_ThreeOfFourKnownAtFirst ==
  FourCardsOneRepeated =>
    /\ view.knownCount = 3
    /\ view.totalSeen = 5
    /\ percentage(view) = 75

\* C12: an arrow key (know() for ArrowRight, again() for ArrowLeft) pressed
\* while the current card is not flipped, or while the phase is not learning,
\* is ignored: phase, deck, currentIndex, flip state, knownCount and totalSeen
\* are unchanged.  No button answers a card that is not flipped.
C12_AnswerIgnoredUnlessFlipped ==
  /\ [][(/\ session'.ev.input \in {"ArrowRight", "ArrowLeft"}
         /\ (~view.isFlipped \/ view.phase # "learning"))
          => view' = view]_vars
  /\ [][(session'.ev.input \in {"Gewusst", "Nochmal"})
          => (view.isFlipped /\ view.phase = "learning")]_vars

\* An arrow key was pressed in the middle of a session on a card that shows
\* its front.
C12_Witness ==
  /\ session.ev = [input |-> "ArrowLeft", ran |-> "none"]
  /\ view.phase = "learning"
  /\ ~view.isFlipped
  /\ view.totalSeen > 0

\* C13: whenever a session is in Done, every card of the list the session was
\* started with got know() as its latest answer, and the deck still holds
\* every one of these cards: again() only moves a card.
C13_DoneMeansEveryCardKnown ==
  /\ [](view.phase = "done" =>
          /\ session.unknown = {}
          /\ Range(session.cards) \subseteq Range(view.deck))
  /\ [][(view.phase = "learning" /\ view'.phase = "learning")
          => Range(view'.deck) = Range(view.deck)]_vars

\* A session ended after a card was answered again().
C13_Witness ==
  /\ view.phase = "done"
  /\ session.agains > 0
  /\ Len(session.cards) >= 3

\* C14: in every state of the learning phase the deck is a rearrangement of
\* the card list the session was started with: same length, no card twice,
\* no card missing.
C14_DeckIsPermutationOfCards ==
  view.phase = "learning" =>
    /\ Len(view.deck) = Len(session.cards)
    /\ \A i \in DOMAIN view.deck, j \in DOMAIN view.deck :
         view.deck[i] = view.deck[j] => i = j
    /\ Range(view.deck) = Range(session.cards)

\* Cards were answered know() and again(), and the deck is no longer in the
\* order it was started in.
C14_Witness ==
  /\ view.phase = "learning"
  /\ session.agains = 2
  /\ view.knownCount >= 1
  /\ Len(view.deck) = 4
  /\ view.currentIndex = 1

(***************************************************************************)
(* getTopicAbbreviation and getTypeInitial as functions of their argument  *)
(***************************************************************************)
\* how long the topic strings are that the functions are applied to
MaxTopicLen == 4

\* a lower-case and an upper-case letter, an umlaut, the sharp s, a digit
TopicChars == {"a", "Z", "u~", "sz", "1"}

FnTopics == UNION {[1..n -> TopicChars] : n \in 0..MaxTopicLen}

formel == <<"f", "o", "r", "m", "e", "l">>
Uebung == <<"U~", "b", "u", "n", "g">>
oel    == <<"o~", "l">>

FnTypes == {Formel, Definition, Graph, Erklaerung, Tabelle, formel, Uebung, oel}

FnInputs ==
  {[pc |-> "topic", arg |-> t] : t \in FnTopics}
    \cup {[pc |-> "type", arg |-> y] : y \in FnTypes}

FnInit ==
  /\ rows = {}
  /\ last = LastNone
  /\ issued = {}
  /\ pending = [c \in Callers |-> NoRequest]
  /\ served = [c \in Callers |-> NoResult]
  /\ gen = GenIdle
  /\ ViewIdle
  /\ fn \in FnInputs

\* getTopicAbbreviation(topic), and the function applied to its own result
Abbreviate ==
  /\ fn.pc = "topic"
  /\ fn' = [pc |-> "abbr", arg |-> fn.arg,
            abbr  |-> getTopicAbbreviation(fn.arg),
            twice |-> getTopicAbbreviation(getTopicAbbreviation(fn.arg))]
  /\ UNCHANGED <<rows, last, issued, pending, served, gen, view, session>>

\* getTypeInitial(type) of the server and of the client
Initial ==
  /\ fn.pc = "type"
  /\ fn' = [pc |-> "initial", arg |-> fn.arg,
            server |-> getTypeInitial(fn.arg),
            client |-> getTypeInitialClient(fn.arg)]
  /\ UNCHANGED <<rows, last, issued, pending, served, gen, view, session>>

FnNext == Abbreviate \/ Initial

FnSpec == FnInit /\ [][FnNext]_vars

\* F, D, G, E for the four known types, else the first character of the type
\* in upper case.
ExpectedInitial(type) ==
  IF type = Formel THEN <<"F">>
  ELSE IF type = Definition THEN <<"D">>
  ELSE IF type = Graph THEN <<"G">>
  ELSE IF type = Erklaerung THEN <<"E">>
  ELSE toUpperCase(sliceTo(type, 1))

\* C15: the type initial is F, D, G, E for Formel, Definition, Graph,
\* Erklärung and for every other type the first character of the type in
\* upper case, in the server's getTypeInitial and in the client's.
C15_TypeInitialFallsBackToFirstChar ==
  fn.pc = "initial" =>
    /\ fn.server = ExpectedInitial(fn.arg)
    /\ fn.client = ExpectedInitial(fn.arg)

\* The letters of a topic, after ä/ö/ü/Ä/Ö/Ü/ß are written as A, O, U, S and
\* everything that is not a letter is left out, in upper case.
RECURSIVE LettersOf(_)
LettersOf(t) ==
  IF t = <<>> THEN <<>>
  ELSE LET c == Head(t)
           l == IF c \in {"a~", "A~"} THEN <<"A">>
                ELSE IF c \in {"o~", "O~"} THEN <<"O">>
                ELSE IF c \in {"u~", "U~"} THEN <<"U">>
                ELSE IF c = "sz" THEN <<"S">>
                ELSE IF c \in UpperSet THEN <<c>>
                ELSE IF c \in LowerSet THEN <<UpperOfLower[c]>>
                ELSE <<>>
       IN  l \o LettersOf(Tail(t))

ExpectedAbbreviation(t) ==
  LET letters == LettersOf(t)
  IN  [i \in 1..3 |-> IF i <= Len(letters) THEN letters[i] ELSE "X"]

\* C16: getTopicAbbreviation returns exactly 3 upper-case ASCII letters: the
\* first three letters left after transliterating the umlauts and the sharp s
\* and stripping what is no letter, padded on the right with X; applied to
\* its own result it returns that result.
C16_AbbreviationThreeLettersIdempotent ==
  fn.pc = "abbr" =>
    /\ Len(fn.abbr) = 3
    /\ \A i \in DOMAIN fn.abbr : fn.abbr[i] \in UpperSet
    /\ fn.abbr = ExpectedAbbreviation(fn.arg)
    /\ fn.twice = fn.abbr

\* A topic with a digit, an umlaut and fewer than three letters.
C16_Witness ==
  /\ fn.pc = "abbr"
  /\ fn.arg = <<"1", "u~", "a">>
  /\ fn.abbr = <<"U", "A", "X">>

(***************************************************************************)
(* Requests whose cards may carry an id of their own (SubmitSpec)          *)
(***************************************************************************)
IdZugF7 == <<"Z", "U", "G", "-", "F", "-", "0", "0", "7">>

Submitted ==
  { Card(TitleA, Zugversuch, Formel),
    [title |-> TitleB, topic |-> Zugversuch, type |-> Formel, id |-> IdZugF7],
    [title |-> TitleA, topic |-> Waerme, type |-> Definition, id |-> IdZugF2] }

SubmittedBatches == UNION {[1..n -> Submitted] : n \in 1..MaxBatch}

\* POST /api/cards; the record keeps the card that was sent
CreateSubmitted(card) ==
  Handled("create", postCard(rows, card), <<card>>, "none", 0, <<>>)

NextSubmit ==
  \/ \E card \in Submitted : CreateSubmitted(card)
  \/ \E cards \in SubmittedBatches : ImportBatch(cards)
  \/ \E id \in getAllIds(rows) : Delete(id)

SubmitSpec == Init /\ [][NextSubmit]_vars

AgainOnLastCard ==
  /\ session'.ev.ran = "handleAgain"
  /\ Len(view.deck) >= 2
  /\ view.currentIndex = Len(view.deck) - 1

\* C18 as stated: after again() on the last card of a deck of at least two
\* cards the deck length is unchanged, currentIndex is a valid index, the
\* phase is still learning and the card shown next is the one that was
\* second-to-last.
C18_SecondToLastShownNext ==
  [][AgainOnLastCard =>
       /\ Len(view'.deck) = Len(view.deck)
       /\ view'.currentIndex \in 0..(Len(view'.deck) - 1)
       /\ view'.phase = "learning"
       /\ currentCard(view') = At(view.deck, Len(view.deck) - 2)]_vars

\* C18 (amended): after again() on the last card of a deck of at least two
\* cards the deck and currentIndex are unchanged and the phase is still
\* learning, so the card shown next is the same card again.
C18_SameCardShownAgain ==
  [][AgainOnLastCard =>
       /\ view'.deck = view.deck
       /\ view'.currentIndex = view.currentIndex
       /\ view'.currentIndex \in 0..(Len(view'.deck) - 1)
       /\ view'.phase = "learning"
       /\ currentCard(view') = currentCard(view)]_vars

\* again() has just run on the last card of a deck of three or more cards.
C18_Witness ==
  /\ session.ev.ran = "handleAgain"
  /\ view.phase = "learning"
  /\ Len(view.deck) >= 3
  /\ view.currentIndex = Len(view.deck) - 1
  /\ currentCard(view) \in session.unknown

\* know() ran (on a flipped card in the learning phase: nothing else lets it run)
KnownRan == session'.ev.ran = "handleKnown"

\* C19 as stated: know() adds 1 to knownCount and to totalSeen, resets the
\* flip state, leaves the deck unchanged and advances currentIndex by 1; the
\* session is in Done exactly when the new index is >= the deck length.
C19_KnownAdvancesIndex ==
  [][KnownRan =>
       /\ view.isFlipped /\ view.phase = "learning"
       /\ view'.knownCount = view.knownCount + 1
       /\ view'.totalSeen = view.totalSeen + 1
       /\ ~view'.isFlipped
       /\ view'.deck = view.deck
       /\ view'.currentIndex = view.currentIndex + 1
       /\ (view'.phase = "done") = (view'.currentIndex >= Len(view.deck))
       /\ view'.phase \in {"done", "learning"}]_vars

\* C19 (amended): know() adds 1 to knownCount and to totalSeen, resets the
\* flip state and leaves the deck unchanged; when the card is the last of the
\* deck the session enters Done and currentIndex stays, otherwise the session
\* stays in learning and currentIndex advances by 1.
C19_KnownAdvancesOrEnds ==
  [][KnownRan =>
       /\ view.isFlipped /\ view.phase = "learning"
       /\ view'.knownCount = view.knownCount + 1
       /\ view'.totalSeen = view.totalSeen + 1
       /\ ~view'.isFlipped
       /\ view'.deck = view.deck
       /\ IF view.currentIndex + 1 >= Len(view.deck)
            THEN view'.phase = "done" /\ view'.currentIndex = view.currentIndex
            ELSE view'.phase = "learning" /\ view'.currentIndex = view.currentIndex + 1]_vars

\* know() has just ended a session of three or more cards.
C19_Witness ==
  /\ session.ev.ran = "handleKnown"
  /\ view.phase = "done"
  /\ view.knownCount >= 3
  /\ view.currentIndex = Len(view.deck) - 1

\* The deck without one card, in order.
Without(deck, card) == SelectSeq(deck, LAMBDA c : c # card)

\* C20: again() on a flipped card in learning adds 1 to totalSeen, leaves
\* knownCount and currentIndex unchanged, resets the flip state and moves the
\* current card to the end of the deck, the other cards keeping their order,
\* so that the card that followed it becomes the current card.
C20_AgainMovesCardToEnd ==
  [][session'.ev.ran = "handleAgain" =>
       /\ view.isFlipped /\ view.phase = "learning"
       /\ view'.totalSeen = view.totalSeen + 1
       /\ view'.knownCount = view.knownCount
       /\ view'.currentIndex = view.currentIndex
       /\ ~view'.isFlipped
       /\ view'.phase = "learning"
       /\ Len(view'.deck) = Len(view.deck)
       /\ view'.deck[Len(view'.deck)] = currentCard(view)
       /\ Without(view'.deck, currentCard(view)) = Without(view.deck, currentCard(view))
       /\ view.currentIndex + 1 < Len(view.deck)
            => currentCard(view') = At(view.deck, view.currentIndex + 1)]_vars

\* again() has just moved a card from the middle of the deck to its end.
C20_Witness ==
  /\ session.ev.ran = "handleAgain"
  /\ view.currentIndex >= 1
  /\ view.currentIndex + 1 < Len(view.deck)
  /\ view.deck[Len(view.deck)] \in session.unknown
  /\ view.totalSeen > view.knownCount

(***************************************************************************)
(* Claims about starting and restarting a session (DeckSpec)               *)
(***************************************************************************)
\* startLearning was called, by either button
StartCalled == session'.ev.input \in {"start", "restart"}

\* deck holds every card of list once and nothing else
IsPermutation(deck, list) ==
  /\ Len(deck) = Len(list)
  /\ Range(deck) = Range(list)
  /\ \A i \in DOMAIN deck, j \in DOMAIN deck : deck[i] = deck[j] => i = j

\* v is the state a session begins in
Fresh(v) ==
  /\ v.phase = "learning"
  /\ v.currentIndex = 0
  /\ ~v.isFlipped
  /\ v.knownCount = 0
  /\ v.totalSeen = 0

\* C21: start with an empty card list changes nothing (the phase stays what
\* it was); with a non-empty list it enters learning with the deck a
\* permutation of the list, currentIndex = 0, not flipped, knownCount = 0 and
\* totalSeen = 0, whatever an earlier session left in these fields.
C21_StartResetsEverything ==
  [][StartCalled =>
       IF session'.ev.ran = "none"
         THEN view' = view
         ELSE /\ Fresh(view')
              /\ session'.cards # <<>>
              /\ IsPermutation(view'.deck, session'.cards)]_vars

\* A session over the whole card list has just been started from setup.
C21_Witness ==
  /\ session.ev = [input |-> "start", ran |-> "startLearning"]
  /\ Fresh(view)
  /\ Len(view.deck) = MaxCards

\* "Nochmal lernen" was clicked in done and startLearning started a session
Restarted ==
  /\ view.phase = "done"
  /\ session'.ev = [input |-> "restart", ran |-> "startLearning"]

\* C22 as stated: restart from done enters learning with a deck that is a
\* permutation of the card list the ended session was started with, with
\* currentIndex, knownCount and totalSeen 0 and the card not flipped.
C22_RestartUsesOriginalList ==
  [][Restarted =>
       /\ Fresh(view')
       /\ IsPermutation(view'.deck, session.cards)]_vars

\* C22 (amended): restart from done enters learning with a deck that is a
\* permutation of the card list the view holds when the button is clicked
\* (the list of the ended session if the list has not changed since, and in
\* no case the deck as again() left it), with currentIndex, knownCount and
\* totalSeen 0 and the card not flipped.
C22_RestartUsesCurrentList ==
  [][Restarted =>
       /\ Fresh(view')
       /\ IsPermutation(view'.deck, session'.cards)
       /\ session'.cards = session.cards => IsPermutation(view'.deck, view.deck)]_vars

\* A session has just been restarted from done.
C22_Witness ==
  /\ session.ev = [input |-> "restart", ran |-> "startLearning"]
  /\ Fresh(view)
  /\ Len(view.deck) >= 2

(***************************************************************************)
(* Claims about the phases of the drill session (DeckSpec)                 *)
(***************************************************************************)
\* The view after up to k cards were flipped (space bar, if the card shows
\* its front) and answered know() (right arrow), one after the other.
RECURSIVE KnowEach(_, _)
KnowEach(v, k) ==
  IF v.phase # "learning" \/ k = 0 THEN v
  ELSE LET flipped == IF v.isFlipped THEN v ELSE run(dispatch(v, "Space"), v)
       IN  KnowEach(run(dispatch(flipped, "ArrowRight"), flipped), k - 1)

\* C23: the phase changes only from setup to learning (start, with a list
\* that is not empty), from learning to done (know() on the last position of
\* the deck), from done to learning (restart) and from done to setup (back);
\* flip and again() never change it; from every learning state done is
\* reached by answering know() for the cards from the current one on; done
\* can be left.
C23_PhaseChangesAlongEdges ==
  /\ [][view'.phase # view.phase =>
          \/ /\ view.phase = "setup" /\ view'.phase = "learning"
             /\ session'.ev = [input |-> "start", ran |-> "startLearning"]
             /\ session'.cards # <<>>
          \/ /\ view.phase = "learning" /\ view'.phase = "done"
             /\ session'.ev.ran = "handleKnown"
             /\ view.currentIndex = Len(view.deck) - 1
          \/ /\ view.phase = "done" /\ view'.phase = "learning"
             /\ session'.ev = [input |-> "restart", ran |-> "startLearning"]
          \/ /\ view.phase = "done" /\ view'.phase = "setup"
             /\ session'.ev.input = "back"]_vars
  /\ [][session'.ev.ran \in {"handleFlip", "handleAgain"}
          => view'.phase = view.phase]_vars
  /\ [](view.phase = "learning" =>
          KnowEach(view, Len(view.deck) - view.currentIndex).phase = "done")
  /\ [](view.phase = "done" => ENABLED (ClickBack /\ view'.phase = "setup"))

\* "Zurück" has just led from done back to setup, after a session in which a
\* card was answered again().
C23_Witness ==
  /\ view.phase = "setup"
  /\ session.ev.input = "back"
  /\ session.agains > 0

(***************************************************************************)
(* Invariants of the drill session (DeckSpec)                              *)
(***************************************************************************)
\* C24: in every state of the learning phase 0 <= currentIndex < deck length,
\* so that there is a current card; also after again() on the last card and
\* on a deck of one card.
C24_CurrentIndexIsValid ==
  view.phase = "learning" =>
    /\ view.currentIndex >= 0
    /\ view.currentIndex < Len(view.deck)
    /\ currentCard(view) # NoCard
    /\ currentCard(view) \in Range(session.cards)

\* again() has just run on a deck of one card.
C24_Witness ==
  /\ session.ev.ran = "handleAgain"
  /\ view.phase = "learning"
  /\ Len(view.deck) = 1
  /\ view.totalSeen = MaxAgain

\* C25: knownCount <= totalSeen in every state.
C25_KnownAtMostSeen == view.knownCount <= view.totalSeen

\* Cards were answered know() and again() in one session.
C25_Witness ==
  /\ view.knownCount >= 2
  /\ view.totalSeen > view.knownCount
  /\ view.phase = "learning"

(***************************************************************************)
(* Claims about runs of again() (DeckSpec)                                 *)
(***************************************************************************)
\* The view after k times space bar (flip) and left arrow (again()).
RECURSIVE AgainTimes(_, _)
AgainTimes(v, k) ==
  IF k = 0 THEN v
  ELSE LET flipped == run(dispatch(v, "Space"), v)
       IN  AgainTimes(run(dispatch(flipped, "ArrowLeft"), flipped), k - 1)

\* The session has just been started and no card is answered yet.
JustStarted == session.ev.ran = "startLearning" /\ view.phase = "learning"

\* C26: right after start on a deck of n >= 1 cards, n again() answers in a
\* row, each after a flip, never change the length of the deck or the cards
\* in it; every one of them puts the first card behind the others, and after
\* the n-th the deck is in its starting order, its first card current again.
C26_AgainCyclesThroughDeck ==
  /\ [](JustStarted =>
          LET n == Len(view.deck)
          IN  /\ n >= 1
              /\ \A k \in 1..n :
                   LET after == AgainTimes(view, k)
                   IN  /\ Len(after.deck) = n
                       /\ IsPermutation(after.deck, view.deck)
                       /\ after.phase = "learning"
                       /\ after.totalSeen = k /\ after.knownCount = 0
                       /\ k < n => currentCard(after) = view.deck[k + 1]
              /\ AgainTimes(view, n).deck = view.deck
              /\ currentCard(AgainTimes(view, n)) = view.deck[1])
  /\ [][(session'.ev.ran = "handleAgain" /\ view.knownCount = 0) =>
          /\ view.currentIndex = 0
          /\ view'.deck = Tail(view.deck) \o <<Head(view.deck)>>]_vars

\* Every card of a deck of MaxAgain cards was answered again() once, and
\* nothing else: the deck went round once.
C26_Witness ==
  /\ session.ev.ran = "handleAgain"
  /\ view.knownCount = 0
  /\ Len(view.deck) = MaxAgain
  /\ session.agains = Len(view.deck)
  /\ session.repeated = Range(view.deck)

(***************************************************************************)
(* Claims about the suffixes generateCardId reads (GenSpec)                *)
(***************************************************************************)
\* The ids of the collection, without those that start with prefix and go on
\* with something that is not a plain base-10 number.
PlainOnly(prefix, ids) ==
  {i \in ids : startsWith(i, prefix) => PlainNumber(sliceFrom(i, Len(prefix)))}

\* C27: an existing id that starts with the prefix and whose remaining suffix
\* is not a plain base-10 number (digits followed by letters, or empty) is
\* ignored: the id generated is the one generated without it.
C27_OddSuffixesAreIgnored ==
  gen.pc = "done" =>
    /\ gen.id =
         generateCardId(gen.topic, gen.type,
           PlainOnly(idPrefix(getTopicAbbreviation(gen.topic), getTypeInitial(gen.type)),
                     gen.ids))
    /\ gen.idClient =
         generateCardIdClient(gen.topic, gen.type,
           PlainOnly(idPrefix(getTopicAbbreviation(gen.topic), getTypeInitialClient(gen.type)),
                     gen.ids))

C29_RepeatsInBatchBothImported ==
  [][IsImportStep =>
       LET fresh == Matching(last'.req, rows, FALSE)
       IN  /\ last'.imported + last'.duplicates = Len(last'.req)
           /\ Len(last'.ids) = Len(fresh)
           /\ \A i \in DOMAIN fresh, j \in DOMAIN fresh :
                (i # j /\ fingerprint(fresh[i]) = fingerprint(fresh[j])) =>
                  /\ last'.ids[i] # last'.ids[j]
                  /\ \A k \in {i, j} :
                       \E r \in rows' \ rows :
                         /\ r.id = last'.ids[k]
                         /\ fingerprint(rowToCard(r)) = fingerprint(fresh[k])]_vars

\* A batch that held the same new card twice was imported: the store holds
\* the card under two ids.
C29_Witness ==
  /\ last.op = "import"
  /\ last.status = 200
  /\ Len(last.req) = 2
  /\ last.req[1] = last.req[2]
  /\ last.imported = 2
  /\ \E r1 \in rows, r2 \in rows :
       /\ r1.id = last.ids[1] /\ r2.id = last.ids[2] /\ r1.id # r2.id
       /\ r1.title = r2.title /\ r1.topic = r2.topic /\ r1.type = r2.type

(***************************************************************************)
(* Requests the server rejects (RejectSpec)                                *)
(***************************************************************************)
\* Request bodies of POST /api/cards that lack a required field or carry it
\* as the empty string
Incomplete ==
  { [topic |-> Zugversuch, type |-> Formel],
    [title |-> TitleA, type |-> Formel],
    [title |-> TitleA, topic |-> Zugversuch],
    [title |-> <<>>, topic |-> Zugversuch, type |-> Formel] }

\* Request bodies of PUT /api/cards/:id: some fields, or a whole card
RejectUpdates == Updates \cup {Card(TitleB, Waerme, Definition)}

\* POST /api/cards/import with a body whose cards value is not an array
\* (missing, or an object)
ImportNoArray ==
  Handled("import without array",
          postImport(rows, [isArray |-> FALSE, cards |-> <<>>]),
          <<>>, "none", 0, <<>>)

NextReject ==
  \/ \E card \in Candidates \cup Incomplete : CreateSubmitted(card)
  \/ \E id \in issued \cup {IdNone}, updates \in RejectUpdates : Update(id, updates)
  \/ \E id \in issued \cup {IdNone} : Delete(id)
  \/ ImportNoArray

RejectSpec == Init /\ [][NextReject]_vars

\* The request just handled is one the server has to reject.
Rejectable ==
  \/ /\ last'.op = "create"
     /\ \E f \in {"title", "topic", "type"} :
          f \notin DOMAIN last'.req[1] \/ last'.req[1][f] = <<>>
  \/ last'.op = "import without array"
  \/ /\ last'.op \in {"update", "delete"}
     /\ \A r \in rows : r.id # last'.target

\* C30: a rejected request leaves the stored cards as they are: a create
\* request without title, topic or type and an import request whose cards
\* value is not an array are answered 400, an update or delete request for an
\* id that is not stored 404, and no request answered 400 or 404 inserts,
\* changes or removes a card.
C30_RejectedRequestsChangeNothing ==
  [][/\ Rejectable =>
          /\ last'.status = (IF last'.op \in {"update", "delete"} THEN 404 ELSE 400)
          /\ rows' = rows
          /\ last'.ids = <<>>
     /\ last'.status \in {400, 404} => rows' = rows]_vars

\* An update for an id that was deleted before was answered 404 while other
\* cards are stored.
C30_Witness ==
  /\ last.op = "update"
  /\ last.status = 404
  /\ last.target \in issued
  /\ rows # {}

====
